---- MODULE Spec2Model ----
(***************************************************************************)
(* Model of patent2content_app.py: a Streamlit script that is re-executed  *)
(* from top to bottom on every user interaction (an "interaction cycle").  *)
(* The session state survives between cycles; the script's locals do not.  *)
(*                                                                         *)
(* Texts.  The extracted text of a PDF is represented by the document it   *)
(* comes from and the number of characters kept of it: [of, len] is the    *)
(* first len characters of the text of document `of`.  A slice text[:n]    *)
(* keeps the document and shortens the length, so the two program limits   *)
(* (100 and 100,000 characters) keep their real values.                    *)
(***************************************************************************)
EXTENDS Integers, FiniteSets, Sequences, TLC

VARIABLES
    \* --- environment -------------------------------------------------------
    secret,                 \* st.secrets["GEMINI_API_KEY"] as the platform holds it
    pdf_uploader_patent,    \* value of the file_uploader widget (key "pdf_uploader_patent")
    button_trigger,         \* the "Generate Patent Summary" click waiting for this run
    user_patent_notes,      \* value of the notes text_area widget (key "user_patent_notes")
    next_file_id,           \* the hosting environment's next upload identifier
    \* --- st.session_state --------------------------------------------------
    pdf_text,
    summary,
    gemini_configured,
    gemini_error,
    uploaded_file_id,
    user_notes,
    \* --- locals of one run of the script -----------------------------------
    gemini_model,
    uploaded_file,
    summarize_button_disabled,
    pc,                     \* position of the run in the script
    \* --- observation of the current cycle ----------------------------------
    event,                  \* the user action that started the cycle
    secret_read,            \* the credential as line 49 read it in this cycle
    response,               \* the API response of this cycle's call, if any
    api_calls,              \* outbound generate_content calls issued in this cycle
    prompt_text,            \* the text interpolated into this cycle's prompt
    truncation_notice,      \* st.info of line 124 shown in this cycle
    outcome,                \* the message branch the summary section took
    extracted,              \* extract_text_from_pdf ran in this cycle
    start,                  \* session state as the cycle found it
    prev_outcome,           \* outcome of the cycle before
    summary_of              \* identifier of the document the summary was generated from

vars == << secret, pdf_uploader_patent, button_trigger, user_patent_notes, next_file_id,
           pdf_text, summary, gemini_configured, gemini_error, uploaded_file_id,
           user_notes, gemini_model, uploaded_file, summarize_button_disabled, pc,
           event, secret_read, response, api_calls, prompt_text, truncation_notice,
           outcome, extracted, start, prev_outcome, summary_of >>

env_vars     == << secret, pdf_uploader_patent, button_trigger, user_patent_notes, next_file_id >>
session_vars == << pdf_text, summary, gemini_configured, gemini_error, uploaded_file_id, user_notes >>
obs_vars     == << event, secret_read, response, api_calls, prompt_text, truncation_notice,
                   outcome, extracted, start, prev_outcome, summary_of >>

(***************************************************************************)
(* Bounds and program constants                                            *)
(***************************************************************************)
MaxUploads == 3

MIN_CHARS == 100
max_chars == 100000

\* Python's None for an identifier, a string, a text, a file, a model handle.
NoneId    == 0
NoneStr   == "None"
NoneText  == [kind |-> "None", of |-> NoneId, len |-> 0]
NoFile    == [kind |-> "None", file_id |-> NoneId, parse |-> "none", chars |-> 0]
NoModel   == "None"
GeminiModel == "gemini-1.5-flash-latest"

\* Lengths of the text layer of the uploaded PDFs.
TextLens == {0, 99, 100, 100000, 100001}

\* What an uploaded PDF holds: bytes fitz cannot open, or pages with text.
PdfContents == {[parse |-> "fail", chars |-> 0]} \cup
               {[parse |-> "ok", chars |-> n] : n \in TextLens}

\* The state of the secret store.
Secrets == {"absent", "empty", "valid", "rejected", "unreadable"}

\* Texts the API can return in response.text.
ApiTexts == {"", "Problem: ... Solution: ...", "Field: ..."}

\* Outcomes of model.generate_content.
Responses == {[kind |-> "parts", text |-> t] : t \in ApiTexts} \cup
             {[kind |-> k, text |-> NoneStr] :
                 k \in {"blocked", "error_key", "error_quota", "error_other"}}
NoResponse == [kind |-> "none", text |-> NoneStr]

Notes == {"", "key claims"}

(***************************************************************************)
(* Python truthiness and slicing                                           *)
(***************************************************************************)
TextTruthy(t) == t.kind = "str" /\ t.len > 0
StrTruthy(s)  == s # NoneStr /\ s # ""

Min(a, b) == IF a < b THEN a ELSE b

\* text[:n]
Slice(t, n) == [t EXCEPT !.len = Min(t.len, n)]

(***************************************************************************)
(* extract_text_from_pdf                                                   *)
(***************************************************************************)
extract_text_from_pdf(file) ==
    IF file.parse = "ok"
    THEN [kind |-> "str", of |-> file.file_id, len |-> file.chars]
    ELSE NoneText

(***************************************************************************)
(* Gemini API configuration block                                          *)
(***************************************************************************)
ResetConfigStatus_keep(st) == st

ResetConfigStatus(st) == [st EXCEPT !.configured = FALSE, !.error = NoneStr]

ReadSecret(st, s) ==
    CASE s = "valid"      -> [configured |-> TRUE,  error |-> NoneStr, model |-> GeminiModel]
      [] s = "rejected"   -> [configured |-> FALSE, error |-> "configure failed", model |-> NoModel]
      [] s = "empty"      -> [st EXCEPT !.configured = FALSE]
      [] s = "absent"     -> [st EXCEPT !.configured = FALSE]
      [] s = "unreadable" -> [st EXCEPT !.configured = FALSE, !.error = "secrets error"]

ConfigStatus(configured, error, s) ==
    ReadSecret(ResetConfigStatus([configured |-> configured, error |-> error,
                                  model |-> NoModel]), s)

(***************************************************************************)
(* file_uploader on_change                                                 *)
(***************************************************************************)
OnChangeUploader_keep_summary(widget, st) ==
    IF widget = NoFile
    THEN [st EXCEPT !.pdf_text = NoneText, !.uploaded_file_id = NoneId]
    ELSE st

OnChangeUploader(widget, st) ==
    IF widget = NoFile
    THEN [pdf_text |-> NoneText, summary |-> NoneStr, uploaded_file_id |-> NoneId]
    ELSE st

(***************************************************************************)
(* summarize_patent_with_gemini                                            *)
(***************************************************************************)
TooShort_inclusive(t) == ~TextTruthy(t) \/ t.len <= MIN_CHARS

TooShort(t) == ~TextTruthy(t) \/ t.len < MIN_CHARS

Truncate_none(t) == t

Truncate(t) == Slice(t, max_chars)

ResponseResult_dropped(r) == NoneStr

ResponseResult(r) == IF r.kind = "parts" THEN r.text ELSE NoneStr

ResponseOutcome(r) ==
    CASE r.kind = "parts"   -> "returned"
      [] r.kind = "blocked" -> "blocked"
      [] OTHER              -> "api_error"

NoCall(msg) ==
    [result |-> NoneStr, calls |-> 0, prompt |-> NoneText, notice |-> FALSE,
     response |-> NoResponse, outcome |-> msg]

summarize_patent_with_gemini(text_to_summarize, model, configured, r) ==
    IF ~configured \/ model = NoModel THEN NoCall("not_configured")
    ELSE IF TooShort(text_to_summarize) THEN NoCall("too_short")
    ELSE [result   |-> ResponseResult(r),
          calls    |-> 1,
          prompt   |-> Truncate(text_to_summarize),
          notice   |-> text_to_summarize.len > max_chars,
          response |-> r,
          outcome  |-> ResponseOutcome(r)]

(***************************************************************************)
(* Generate Patent Summary button                                          *)
(***************************************************************************)
SummarizeButtonDisabled_text_only(configured, text) == ~TextTruthy(text)

SummarizeButtonDisabled(configured, text) == ~configured \/ ~TextTruthy(text)

GenerateRequested_every_run(trigger, configured, text, model) ==
    configured /\ TextTruthy(text) /\ model # NoModel

GenerateRequested(trigger, configured, text, model) ==
    trigger /\ configured /\ TextTruthy(text) /\ model # NoModel

UpdatedSummary_always(old, result) == result

UpdatedSummary(old, result) == IF StrTruthy(result) THEN result ELSE old

(***************************************************************************)
(* Initial state: the session defaults, the first run about to start       *)
(***************************************************************************)
SessionSnapshot ==
    [pdf_text |-> pdf_text, summary |-> summary, uploaded_file_id |-> uploaded_file_id,
     configured |-> gemini_configured, error |-> gemini_error]

Init ==
    /\ secret \in Secrets
    /\ pdf_uploader_patent = NoFile
    /\ button_trigger = FALSE
    /\ user_patent_notes = ""
    /\ next_file_id = 1
    /\ pdf_text = NoneText
    /\ summary = NoneStr
    /\ gemini_configured = FALSE
    /\ gemini_error = NoneStr
    /\ uploaded_file_id = NoneId
    /\ user_notes = ""
    /\ gemini_model = NoModel
    /\ uploaded_file = NoFile
    /\ summarize_button_disabled = TRUE
    /\ pc = "config"
    /\ event = "load"
    /\ secret_read = "absent"
    /\ response = NoResponse
    /\ api_calls = 0
    /\ prompt_text = NoneText
    /\ truncation_notice = FALSE
    /\ outcome = "none"
    /\ extracted = FALSE
    /\ start = [pdf_text |-> NoneText, summary |-> NoneStr, uploaded_file_id |-> NoneId,
                configured |-> FALSE, error |-> NoneStr]
    /\ prev_outcome = "none"
    /\ summary_of = NoneId

(***************************************************************************)
(* User actions: each one starts an interaction cycle.  A widget callback  *)
(* runs before the script does.                                            *)
(***************************************************************************)
BeginCycle(ev) ==
    /\ pc' = "config"
    /\ event' = ev
    /\ start' = SessionSnapshot
    /\ prev_outcome' = outcome
    /\ response' = NoResponse
    /\ api_calls' = 0
    /\ prompt_text' = NoneText
    /\ truncation_notice' = FALSE
    /\ outcome' = "none"
    /\ extracted' = FALSE
    /\ gemini_model' = NoModel
    /\ uploaded_file' = NoFile
    /\ summarize_button_disabled' = TRUE
    /\ UNCHANGED << secret, secret_read, summary_of, gemini_configured, gemini_error,
                    user_notes >>

FileChanged(widget) ==
    LET st == OnChangeUploader(widget, [pdf_text |-> pdf_text, summary |-> summary,
                                        uploaded_file_id |-> uploaded_file_id])
    IN  /\ pdf_uploader_patent' = widget
        /\ pdf_text' = st.pdf_text
        /\ summary' = st.summary
        /\ uploaded_file_id' = st.uploaded_file_id

UploadFile ==
    /\ pc = "done"
    /\ next_file_id <= MaxUploads
    /\ \E c \in PdfContents :
          FileChanged([kind |-> "pdf", file_id |-> next_file_id,
                       parse |-> c.parse, chars |-> c.chars])
    /\ next_file_id' = next_file_id + 1
    /\ UNCHANGED << button_trigger, user_patent_notes >>
    /\ BeginCycle("upload")

RemoveFile ==
    /\ pc = "done"
    /\ pdf_uploader_patent # NoFile
    /\ FileChanged(NoFile)
    /\ UNCHANGED << button_trigger, user_patent_notes, next_file_id >>
    /\ BeginCycle("remove")

\* The button can be clicked where the last run rendered it enabled.
ClickGenerate ==
    /\ pc = "done"
    /\ uploaded_file # NoFile
    /\ ~summarize_button_disabled
    /\ button_trigger' = TRUE
    /\ UNCHANGED << pdf_uploader_patent, user_patent_notes, next_file_id,
                    pdf_text, summary, uploaded_file_id >>
    /\ BeginCycle("click")

\* The manual-entry widgets exist where the last run rendered them.
EditNotes ==
    /\ pc = "done"
    /\ uploaded_file # NoFile
    /\ \E n \in Notes : n # user_patent_notes /\ user_patent_notes' = n
    /\ UNCHANGED << pdf_uploader_patent, button_trigger, next_file_id,
                    pdf_text, summary, uploaded_file_id >>
    /\ BeginCycle("edit")

\* The credential is edited outside the application, between two runs.
ChangeSecret ==
    /\ pc = "done"
    /\ \E s \in Secrets : s # secret /\ secret' = s
    /\ UNCHANGED << pdf_uploader_patent, button_trigger, user_patent_notes, next_file_id,
                    session_vars, gemini_model, uploaded_file,
                    summarize_button_disabled, pc, obs_vars >>

(***************************************************************************)
(* The script, in the order it runs                                        *)
(***************************************************************************)
\* lines 41-80
ConfigureGemini ==
    /\ pc = "config"
    /\ LET st == ConfigStatus(gemini_configured, gemini_error, secret)
       IN  /\ gemini_configured' = st.configured
           /\ gemini_error' = st.error
           /\ gemini_model' = st.model
    /\ secret_read' = secret
    /\ pc' = "uploader"
    /\ UNCHANGED << env_vars, pdf_text, summary, uploaded_file_id, user_notes,
                    uploaded_file, summarize_button_disabled,
                    event, response, api_calls, prompt_text, truncation_notice,
                    outcome, extracted, start, prev_outcome, summary_of >>

\* lines 85-95 and the tests of lines 174-178
RenderUploader ==
    /\ pc = "uploader"
    /\ uploaded_file' = pdf_uploader_patent
    /\ pc' = IF pdf_uploader_patent = NoFile THEN "no_file"
             ELSE IF pdf_text = NoneText \/ pdf_uploader_patent.file_id # uploaded_file_id
                  THEN "extract"
                  ELSE "summary_section"
    /\ UNCHANGED << env_vars, session_vars, gemini_model, summarize_button_disabled,
                    obs_vars >>

\* line 182
ExtractText ==
    /\ pc = "extract"
    /\ pdf_text' = extract_text_from_pdf(uploaded_file)
    /\ extracted' = TRUE
    /\ pc' = "reset_summary"
    /\ UNCHANGED << env_vars, summary, gemini_configured, gemini_error, uploaded_file_id,
                    user_notes, gemini_model, uploaded_file, summarize_button_disabled,
                    event, secret_read, response, api_calls, prompt_text,
                    truncation_notice, outcome, start, prev_outcome, summary_of >>

\* line 183
ResetSummary ==
    /\ pc = "reset_summary"
    /\ summary' = NoneStr
    /\ pc' = "store_file_id"
    /\ UNCHANGED << env_vars, pdf_text, gemini_configured, gemini_error, uploaded_file_id,
                    user_notes, gemini_model, uploaded_file, summarize_button_disabled,
                    obs_vars >>

\* line 184
StoreFileId ==
    /\ pc = "store_file_id"
    /\ uploaded_file_id' = uploaded_file.file_id
    /\ pc' = "summary_section"
    /\ UNCHANGED << env_vars, pdf_text, summary, gemini_configured, gemini_error,
                    user_notes, gemini_model, uploaded_file, summarize_button_disabled,
                    obs_vars >>

\* lines 210-225
SummarySection ==
    /\ pc = "summary_section"
    /\ summarize_button_disabled' = SummarizeButtonDisabled(gemini_configured, pdf_text)
    /\ IF GenerateRequested(button_trigger, gemini_configured, pdf_text, gemini_model)
       THEN \E r \in Responses :
              LET s == summarize_patent_with_gemini(pdf_text, gemini_model,
                                                    gemini_configured, r)
              IN  /\ summary' = UpdatedSummary(summary, s.result)
                  /\ summary_of' = IF StrTruthy(s.result) THEN s.prompt.of ELSE summary_of
                  /\ response' = s.response
                  /\ api_calls' = api_calls + s.calls
                  /\ prompt_text' = s.prompt
                  /\ truncation_notice' = s.notice
                  /\ outcome' = s.outcome
       ELSE /\ outcome' = IF ~button_trigger THEN "none"
                          ELSE IF ~TextTruthy(pdf_text) THEN "text_missing"
                          ELSE "config_missing"
            /\ UNCHANGED << summary, summary_of, response, api_calls, prompt_text,
                            truncation_notice >>
    /\ pc' = "manual_entry"
    /\ UNCHANGED << env_vars, pdf_text, gemini_configured, gemini_error, uploaded_file_id,
                    user_notes, gemini_model, uploaded_file,
                    event, secret_read, extracted, start, prev_outcome >>

\* lines 246-259; the run ends and the click it served is consumed
ManualEntry ==
    /\ pc = "manual_entry"
    /\ user_notes' = user_patent_notes
    /\ button_trigger' = FALSE
    /\ pc' = "done"
    /\ UNCHANGED << secret, pdf_uploader_patent, user_patent_notes, next_file_id,
                    pdf_text, summary, gemini_configured, gemini_error, uploaded_file_id,
                    gemini_model, uploaded_file, summarize_button_disabled, obs_vars >>

\* lines 261-262; the run ends
NoFileInfo ==
    /\ pc = "no_file"
    /\ button_trigger' = FALSE
    /\ pc' = "done"
    /\ UNCHANGED << secret, pdf_uploader_patent, user_patent_notes, next_file_id,
                    session_vars, gemini_model, uploaded_file,
                    summarize_button_disabled, obs_vars >>

Next ==
    \/ UploadFile
    \/ RemoveFile
    \/ ClickGenerate
    \/ EditNotes
    \/ ChangeSecret
    \/ ConfigureGemini
    \/ RenderUploader
    \/ ExtractText
    \/ ResetSummary
    \/ StoreFileId
    \/ SummarySection
    \/ ManualEntry
    \/ NoFileInfo

Spec == Init /\ [][Next]_vars

(***************************************************************************)
(* Properties                                                              *)
(***************************************************************************)
AfterSummarySection == pc \in {"manual_entry", "done"}

FailedOutcomes == {"blocked", "api_error"}

\* The texts of one document, one per length.
Texts == {[kind |-> "str", of |-> 1, len |-> n] : n \in TextLens}

\* C1: whenever the uploaded document's identifier differs from the stored
\* uploaded_file_id, the prior summary and the prior extracted text are both
\* absent at the moment the extraction of the new document begins.
C1_ClearedBeforeExtraction ==
    (pc = "extract" /\ uploaded_file.file_id # uploaded_file_id)
        => (summary = NoneStr /\ pdf_text = NoneText)

\* C2: in every cycle with a document uploaded, the text is extracted if and
\* only if the document's identifier differs from the identifier the previous
\* cycle left stored; a failed extraction is not run again for the same identifier.
C2_ExtractIffIdChanged ==
    (pc = "done" /\ uploaded_file # NoFile)
        => (extracted <=> uploaded_file.file_id # start.uploaded_file_id)

\* C3: once a cycle has found the API unconfigured, it issues no outbound call,
\* and the generate-summary button it renders is disabled, whatever the earlier
\* cycles left behind and even when the cycle serves a click.
C3_UnconfiguredNeverSummarizes ==
    (pc # "config" /\ ~gemini_configured)
        => /\ api_calls = 0
           /\ (AfterSummarySection /\ uploaded_file # NoFile) => summarize_button_disabled

C3_Witness ==
    /\ pc = "done"
    /\ event = "click"
    /\ start.configured
    /\ ~gemini_configured
    /\ TextTruthy(pdf_text)
    /\ outcome = "config_missing"

\* C4: summarization of a text that is absent, empty or shorter than 100
\* characters returns no summary, issues no call and reports the too-short
\* outcome; a text of 100 characters or more is sent. A click on a text shorter
\* than 100 characters therefore leaves the summary as it was.
C4_ShortTextShortCircuits ==
    /\ \A t \in Texts \cup {NoneText} : \A r \in Responses :
          LET s == summarize_patent_with_gemini(t, GeminiModel, TRUE, r)
          IN  IF t.kind = "None" \/ t.len = 0 \/ t.len < MIN_CHARS
              THEN s.calls = 0 /\ s.result = NoneStr /\ s.outcome = "too_short"
              ELSE s.calls = 1 /\ s.outcome # "too_short"
    /\ (AfterSummarySection /\ event = "click" /\ gemini_configured /\ TextTruthy(pdf_text))
          => IF pdf_text.len < MIN_CHARS
             THEN api_calls = 0 /\ outcome = "too_short" /\ summary = start.summary
             ELSE api_calls = 1 /\ outcome # "too_short"

C4_Witness ==
    /\ pc = "done"
    /\ event = "click"
    /\ pdf_text.len = 99
    /\ outcome = "too_short"
    /\ api_calls = 0

\* C5: the text in the prompt of a call is the first 100,000 characters of the
\* extracted text when that is longer than 100,000 characters and the extracted
\* text itself otherwise; the truncation notice is shown exactly when a prompt
\* is built from a text longer than 100,000 characters.
C5_TruncatedToCap ==
    AfterSummarySection
        => /\ truncation_notice <=> (api_calls = 1 /\ pdf_text.len > max_chars)
           /\ api_calls = 1
                => IF pdf_text.len > max_chars
                   THEN /\ prompt_text.kind = "str"
                        /\ prompt_text.of = pdf_text.of
                        /\ prompt_text.len = max_chars
                   ELSE prompt_text = pdf_text

C5_Witness ==
    /\ pc = "done"
    /\ api_calls = 1
    /\ pdf_text.len = max_chars + 1
    /\ prompt_text.len = max_chars
    /\ truncation_notice

\* C6: a click whose call is blocked or raises leaves the summary, the extracted
\* text and the stored identifier as the cycle found them.
C6_FailedCallChangesNothing ==
    (AfterSummarySection /\ api_calls = 1 /\ response.kind # "parts")
        => /\ summary = start.summary
           /\ pdf_text = start.pdf_text
           /\ uploaded_file_id = start.uploaded_file_id

C6_Witness ==
    /\ pc = "done"
    /\ api_calls = 1
    /\ response.kind = "blocked"
    /\ start.summary = NoneStr
    /\ summary = NoneStr

\* C7 as stated: after a call that returned text T, the summary equals T, for
\* every T, the empty text included.
C7_SummaryEqualsReturnedText ==
    (AfterSummarySection /\ api_calls = 1 /\ response.kind = "parts")
        => summary = response.text

\* C7 amended: after a call that returned a non-empty text T the summary equals
\* T; after a call that returned the empty text the summary is what the cycle
\* found.
C7_SummaryEqualsNonEmptyText ==
    (AfterSummarySection /\ api_calls = 1 /\ response.kind = "parts")
        => IF response.text # ""
           THEN summary = response.text
           ELSE summary = start.summary

C7_Witness ==
    /\ pc = "done"
    /\ api_calls = 1
    /\ response.kind = "parts"
    /\ response.text = "Problem: ... Solution: ..."
    /\ start.summary = NoneStr
    /\ summary = "Problem: ... Solution: ..."

\* C8: after the configuration block of a cycle, the configured flag and the
\* error message are determined by the credential that cycle read, whatever
\* the flag and the error the earlier cycles left and whatever the user did.
ExpectedError(s) ==
    CASE s = "rejected"   -> "configure failed"
      [] s = "unreadable" -> "secrets error"
      [] OTHER            -> NoneStr

C8_StatusFromCredentialOnly ==
    pc # "config"
        => /\ gemini_configured = (secret_read = "valid")
           /\ gemini_error = ExpectedError(secret_read)

C8_Witness ==
    /\ pc = "done"
    /\ start.error # NoneStr
    /\ secret_read = "absent"
    /\ gemini_error = NoneStr
    /\ ~gemini_configured

\* C9: a cycle issues at most one call and only when it serves a click; after
\* a blocked or failed call the button is rendered enabled; and a click that
\* follows a blocked or failed call, with the API configured and the text long
\* enough, issues a new call.
C9_NoAutomaticRetryRetryAllowed ==
    /\ api_calls <= 1
    /\ api_calls = 1 => event = "click"
    /\ (AfterSummarySection /\ api_calls = 1 /\ outcome \in FailedOutcomes)
          => ~summarize_button_disabled
    /\ (AfterSummarySection /\ event = "click" /\ prev_outcome \in FailedOutcomes
          /\ gemini_configured /\ TextTruthy(pdf_text) /\ pdf_text.len >= MIN_CHARS)
          => api_calls = 1

C9_Witness ==
    /\ pc = "done"
    /\ event = "click"
    /\ prev_outcome \in FailedOutcomes
    /\ api_calls = 1
    /\ pdf_text = start.pdf_text

\* C10: at the end of every cycle, a present summary belongs to the document
\* that is uploaded now: a file is uploaded, its identifier is the stored one,
\* the extracted text is present and is that document's, and the summary was
\* generated from that document. With no file uploaded, the extracted text, the
\* summary and the stored identifier are all absent.
C10_SummaryBelongsToCurrentDocument ==
    pc = "done"
        => /\ summary # NoneStr
                => /\ pdf_uploader_patent # NoFile
                   /\ pdf_uploader_patent.file_id = uploaded_file_id
                   /\ pdf_text # NoneText
                   /\ pdf_text.of = uploaded_file_id
                   /\ summary_of = uploaded_file_id
           /\ pdf_uploader_patent = NoFile
                => /\ pdf_text = NoneText
                   /\ summary = NoneStr
                   /\ uploaded_file_id = NoneId

C10_Witness ==
    /\ pc = "done"
    /\ event = "upload"
    /\ start.summary # NoneStr
    /\ start.uploaded_file_id # uploaded_file_id
    /\ summary = NoneStr
====
